---- MODULE Spec2Model ----
(***************************************************************************)
(* A model of the codec core of @polkadot/types as found in this tree:     *)
(*   - Text: decoding (decodeText), the display override, the round trip   *)
(*     through toU8a                                                       *)
(*   - the Metadata constructor's decode with its version 9 -> 10 fallback *)
(*   - the GenericExtrinsic envelope: decode, version byte, signing and    *)
(*     the memoized hash, also for two objects sharing one inner value     *)
(*   - the gate on derive sections (getAvailableDerives)                   *)
(*   - the extrinsics decorated from metadata (fromMetadata)               *)
(*   - compareArray                                                        *)
(* Each part has its own specification; the variables of the other parts   *)
(* stay at their idle values.  Byte arrays and strings are run-length      *)
(* encoded so that buffers longer than MAX_LENGTH (128 KiB) can be         *)
(* model-checked.                                                          *)
(***************************************************************************)
EXTENDS Integers, Sequences, FiniteSets, TLC

VARIABLES
  textIn,          \* the argument of the pending/last Text construction
  textOut,         \* its outcome: "none" before it ran
  decIn,           \* the arguments of the pending/last extrinsic decode
  decOut,          \* its outcome
  EMPTY_METADATA,  \* Metadata.ts module-level buffer (a mutable Uint8Array)
  decoder,         \* the (version, payload) pairs MetadataVersioned accepts
  metaCall,        \* record of the last Metadata construction
  raws,            \* heap of extrinsic inner values (ExtrinsicV4 objects)
  objs,            \* the GenericExtrinsic objects: inner reference, #hashCache
  extOp,           \* the last operation on an extrinsic and what it returned
  texts,           \* the Text objects: wrapped string, #initialU8aLength, #override
  textOp,          \* the last operation on a Text and what it returned
  deriveIn,        \* the api and the derive sections handed to injectFunctions
  deriveOut,       \* the sections of the map it returned
  metadataIn,      \* the modules of the metadata handed to fromMetadata
  extrinsicsOut,   \* the decorated extrinsics it returned
  cmpIn,           \* the arguments of the pending/last compareArray call
  cmpOut           \* its outcome

vars == <<textIn, textOut, decIn, decOut, EMPTY_METADATA, decoder, metaCall, raws, objs, extOp,
          texts, textOp, deriveIn, deriveOut, metadataIn, extrinsicsOut, cmpIn, cmpOut>>

(***************************************************************************)
(* Bounds of the model                                                     *)
(***************************************************************************)
\* small declared lengths and body lengths run over 0..MaxSmall
MaxSmall == 2
\* lengths around MAX_LENGTH run over MAX_LENGTH-Near .. MAX_LENGTH+Near
Near == 1
\* signing accounts are 1..NumAccounts
NumAccounts == 2
\* nonces run over 0..MaxNonce
MaxNonce == 1
\* a metadata holds up to MaxModules modules
MaxModules == 3
\* the arrays compared hold up to MaxArray elements
MaxArray == 2

(***************************************************************************)
(* Uint8Array values: a sequence of runs <<byte, count>>, count >= 1,      *)
(* adjacent runs holding different bytes (a normal form, so that equal     *)
(* arrays are equal values).  JS strings use the same shape over UTF-16    *)
(* code units.                                                             *)
(***************************************************************************)
\* the JS value undefined, outside the byte range
Undefined == 0 - 1

RECURSIVE BLen(_)
BLen(b) == IF b = <<>> THEN 0 ELSE Head(b)[2] + BLen(Tail(b))

\* one run of n copies of byte c (empty when n = 0)
Run(c, n) == IF n <= 0 THEN <<>> ELSE << <<c, n>> >>

\* concatenation, merging the runs that meet
BCat(a, b) ==
  IF a = <<>> THEN b
  ELSE IF b = <<>> THEN a
  ELSE IF a[Len(a)][1] = Head(b)[1]
       THEN SubSeq(a, 1, Len(a) - 1)
            \o << <<Head(b)[1], a[Len(a)][2] + Head(b)[2]>> >>
            \o Tail(b)
       ELSE a \o b

RECURSIVE FromSeq(_)
FromSeq(s) == IF s = <<>> THEN <<>> ELSE BCat(Run(Head(s), 1), FromSeq(Tail(s)))

RECURSIVE BTake(_, _)
BTake(b, k) ==
  IF k <= 0 \/ b = <<>> THEN <<>>
  ELSE IF Head(b)[2] <= k
       THEN <<Head(b)>> \o BTake(Tail(b), k - Head(b)[2])
       ELSE << <<Head(b)[1], k>> >>

RECURSIVE BDrop(_, _)
BDrop(b, k) ==
  IF k <= 0 \/ b = <<>> THEN b
  ELSE IF Head(b)[2] <= k
       THEN BDrop(Tail(b), k - Head(b)[2])
       ELSE << <<Head(b)[1], Head(b)[2] - k>> >> \o Tail(b)

\* Uint8Array.prototype.subarray(begin, end), 0 <= begin
subarray(b, begin, end) == BTake(BDrop(b, begin), end - begin)

\* b[i], 0-based; undefined past the end
BAt(b, i) == LET d == BDrop(b, i) IN IF d = <<>> THEN Undefined ELSE Head(d)[1]

\* little-endian value of a byte array (u8aToBn(.., true))
RECURSIVE u8aToBn(_)
u8aToBn(b) ==
  IF b = <<>> THEN 0
  ELSE Head(b)[1] + 256 * u8aToBn(BDrop(b, 1))

(***************************************************************************)
(* SCALE compact integers (spec 4.1, 6)                                    *)
(***************************************************************************)
\* compactFromU8a: <<offset, length>> read from the front of a non-empty
\* array.  Bytes missing from a truncated prefix read as absent (the slice
\* is shorter), as in the library.
compactFromU8a(u8a) ==
  LET b0   == BAt(u8a, 0)
      flag == b0 % 4
  IN  IF flag = 0 THEN <<1, b0 \div 4>>
      ELSE IF flag = 1 THEN <<2, u8aToBn(subarray(u8a, 0, 2)) \div 4>>
      ELSE IF flag = 2 THEN <<4, u8aToBn(subarray(u8a, 0, 4)) \div 4>>
      ELSE LET offset == 1 + (b0 \div 4) + 4
           IN  <<offset, u8aToBn(subarray(u8a, 1, offset))>>

\* little-endian bytes of n on k bytes
RECURSIVE LEBytes(_, _)
LEBytes(n, k) == IF k = 0 THEN <<>> ELSE <<n % 256>> \o LEBytes(n \div 256, k - 1)

\* compactToU8a for values below 2^30
compactToU8a(n) ==
  IF n < 64 THEN FromSeq(<<n * 4>>)
  ELSE IF n < 16384 THEN FromSeq(LEBytes(n * 4 + 1, 2))
  ELSE FromSeq(LEBytes(n * 4 + 2, 4))

compactAddLength(b) == BCat(compactToU8a(BLen(b)), b)

(***************************************************************************)
(* UTF-8 (TextDecoder / TextEncoder).  A malformed sequence decodes to one *)
(* U+FFFD per maximal subpart; a leading byte order mark is dropped by the *)
(* decoder; the encoder writes a lone surrogate as U+FFFD.                 *)
(***************************************************************************)
REPLACEMENT == 65533
BOM == 65279

IsCont(x) == x # Undefined /\ x >= 128 /\ x < 192

\* the range the byte after lead byte c must lie in
SecondLo(c) == IF c = 224 THEN 160 ELSE IF c = 240 THEN 144 ELSE 128
SecondHi(c) == IF c = 237 THEN 159 ELSE IF c = 244 THEN 143 ELSE 191
IsSecond(c, x) == x # Undefined /\ x >= SecondLo(c) /\ x <= SecondHi(c)

\* the UTF-16 code units of code point cp
CodeUnits(cp) ==
  IF cp < 65536 THEN Run(cp, 1)
  ELSE BCat(Run(55296 + ((cp - 65536) \div 1024), 1), Run(56320 + ((cp - 65536) % 1024), 1))

RECURSIVE utf8Decode(_)
utf8Decode(b) ==
  IF b = <<>> THEN <<>>
  ELSE LET c  == Head(b)[1]
           n  == Head(b)[2]
           b1 == BAt(b, 1)
           b2 == BAt(b, 2)
           b3 == BAt(b, 3)
           bad(k) == BCat(Run(REPLACEMENT, 1), utf8Decode(BDrop(b, k)))
       IN  IF c < 128
           THEN BCat(Run(c, n), utf8Decode(Tail(b)))
           ELSE IF c >= 194 /\ c < 224
           THEN IF IsCont(b1)
                THEN BCat(Run((c - 192) * 64 + (b1 - 128), 1), utf8Decode(BDrop(b, 2)))
                ELSE bad(1)
           ELSE IF c >= 224 /\ c < 240
           THEN IF ~IsSecond(c, b1) THEN bad(1)
                ELSE IF ~IsCont(b2) THEN bad(2)
                ELSE BCat(Run((c - 224) * 4096 + (b1 - 128) * 64 + (b2 - 128), 1),
                          utf8Decode(BDrop(b, 3)))
           ELSE IF c >= 240 /\ c < 245
           THEN IF ~IsSecond(c, b1) THEN bad(1)
                ELSE IF ~IsCont(b2) THEN bad(2)
                ELSE IF ~IsCont(b3) THEN bad(3)
                ELSE BCat(CodeUnits((c - 240) * 262144 + (b1 - 128) * 4096
                                    + (b2 - 128) * 64 + (b3 - 128)),
                          utf8Decode(BDrop(b, 4)))
           ELSE bad(1)

u8aToString(b) ==
  LET s == utf8Decode(b)
  IN  IF BAt(s, 0) = BOM THEN BDrop(s, 1) ELSE s

IsHighSurrogate(c) == c # Undefined /\ c >= 55296 /\ c < 56320
IsLowSurrogate(c) == c # Undefined /\ c >= 56320 /\ c < 57344

RECURSIVE stringToU8a(_)
stringToU8a(s) ==
  IF s = <<>> THEN <<>>
  ELSE LET c == Head(s)[1]
           n == Head(s)[2]
           d == BAt(s, 1)
       IN  IF c < 128
           THEN BCat(Run(c, n), stringToU8a(Tail(s)))
           ELSE IF c < 2048
           THEN BCat(FromSeq(<<192 + (c \div 64), 128 + (c % 64)>>),
                     stringToU8a(BDrop(s, 1)))
           ELSE IF IsHighSurrogate(c) /\ IsLowSurrogate(d)
           THEN LET cp == 65536 + (c - 55296) * 1024 + (d - 56320)
                IN  BCat(FromSeq(<<240 + (cp \div 262144), 128 + ((cp \div 4096) % 64),
                                   128 + ((cp \div 64) % 64), 128 + (cp % 64)>>),
                         stringToU8a(BDrop(s, 2)))
           ELSE IF IsHighSurrogate(c) \/ IsLowSurrogate(c)
           THEN BCat(FromSeq(<<239, 191, 189>>), stringToU8a(BDrop(s, 1)))
           ELSE BCat(FromSeq(<<224 + (c \div 4096), 128 + ((c \div 64) % 64), 128 + (c % 64)>>),
                     stringToU8a(BDrop(s, 1)))

(***************************************************************************)
(* Hex strings (isHex, hexToU8a, u8aToHex of @polkadot/util)               *)
(***************************************************************************)
IsHexChar(c) == (c >= 48 /\ c <= 57) \/ (c >= 65 /\ c <= 70) \/ (c >= 97 /\ c <= 102)

HexCharValue(c) == IF c <= 57 THEN c - 48 ELSE IF c <= 70 THEN c - 55 ELSE c - 87

HexChar(d) == IF d < 10 THEN 48 + d ELSE 87 + d

\* isHex(s): "0x" followed by an even number of hex digits
isHex(s) ==
  /\ BAt(s, 0) = 48 /\ BAt(s, 1) = 120
  /\ BLen(s) % 2 = 0
  /\ \A i \in DOMAIN BDrop(s, 2) : IsHexChar(BDrop(s, 2)[i][1])

\* the plain sequence of the elements of a run-length encoded array
RECURSIVE Expand(_)
Expand(b) == IF b = <<>> THEN <<>> ELSE <<Head(b)[1]>> \o Expand(BDrop(b, 1))

\* hexToU8a on the digits after "0x" (an even number of them)
RECURSIVE hexToU8a(_)
hexToU8a(h) ==
  IF Len(h) < 2 THEN <<>>
  ELSE <<h[1] * 16 + h[2]>> \o hexToU8a(SubSeq(h, 3, Len(h)))

\* hexToU8a on a hex string
hexStringToU8a(s) ==
  LET chars == Expand(BDrop(s, 2))
  IN  FromSeq(hexToU8a([i \in DOMAIN chars |-> HexCharValue(chars[i])]))

\* u8aToHex(b), as a string
RECURSIVE u8aToHex(_)
u8aToHex(b) ==
  IF b = <<>> THEN FromSeq(<<48, 120>>)
  ELSE LET last == BAt(b, BLen(b) - 1)
       IN  BCat(u8aToHex(BTake(b, BLen(b) - 1)),
                FromSeq(<<HexChar(last \div 16), HexChar(last % 16)>>))

(***************************************************************************)
(* Text (primitive/Text.ts)                                                *)
(***************************************************************************)
MAX_LENGTH == 128 * 1024

\* decodeText without the MAX_LENGTH assertion
decodeText_NoMaxLength(value) ==
  IF value.kind = "string"
  THEN [ok |-> TRUE,
        str |-> IF isHex(value.str) THEN u8aToString(hexStringToU8a(value.str)) ELSE value.str,
        len |-> 0]
  ELSE IF value.kind = "null"
  THEN [ok |-> TRUE, str |-> <<>>, len |-> 0]
  ELSE IF BLen(value.bytes) = 0
  THEN [ok |-> TRUE, str |-> <<>>, len |-> 0]
  ELSE IF value.kind = "raw"
  THEN [ok |-> TRUE, str |-> u8aToString(value.bytes), len |-> 0]
  ELSE LET c      == compactFromU8a(value.bytes)
           total  == c[1] + c[2]
       IN  IF ~(total <= BLen(value.bytes))
           THEN [ok |-> FALSE, error |-> "Text: required length less than remainder"]
           ELSE [ok |-> TRUE,
                 str |-> u8aToString(subarray(value.bytes, c[1], total)),
                 len |-> total]

\* decodeText.  value = [kind, ...]: kind "u8a" is a plain Uint8Array, "raw"
\* an instance of Raw (both with bytes), "string" a string (str), "null" null
\* or undefined.  The result is [ok, str, len] or a thrown assertion
\* [ok |-> FALSE, error].
decodeText(value) ==
  IF value.kind = "string"
  THEN IF isHex(value.str)
       THEN [ok |-> TRUE, str |-> u8aToString(hexStringToU8a(value.str)), len |-> 0]
       ELSE [ok |-> TRUE, str |-> value.str, len |-> 0]
  ELSE IF value.kind = "null"
  THEN [ok |-> TRUE, str |-> <<>>, len |-> 0]
  ELSE IF BLen(value.bytes) = 0
  THEN [ok |-> TRUE, str |-> <<>>, len |-> 0]
  ELSE IF value.kind = "raw"
  THEN [ok |-> TRUE, str |-> u8aToString(value.bytes), len |-> 0]
  ELSE LET c      == compactFromU8a(value.bytes)
           offset == c[1]
           length == c[2]
           total  == offset + length
       IN  IF ~(length <= MAX_LENGTH)
           THEN [ok |-> FALSE, error |-> "Text: length exceeds MAX_LENGTH"]
           ELSE IF ~(total <= BLen(value.bytes))
           THEN [ok |-> FALSE, error |-> "Text: required length less than remainder"]
           ELSE [ok |-> TRUE,
                 str |-> u8aToString(subarray(value.bytes, offset, total)),
                 len |-> total]

(***************************************************************************)
(* Bit operations on non-negative integers; undefined coerces to 0         *)
(***************************************************************************)
ToInt(x) == IF x = Undefined THEN 0 ELSE x

RECURSIVE BitAnd(_, _)
BitAnd(a, b) ==
  IF a = 0 \/ b = 0 THEN 0
  ELSE (a % 2) * (b % 2) + 2 * BitAnd(a \div 2, b \div 2)

RECURSIVE BitOr(_, _)
BitOr(a, b) ==
  IF a = 0 THEN b
  ELSE IF b = 0 THEN a
  ELSE (IF a % 2 = 1 \/ b % 2 = 1 THEN 1 ELSE 0) + 2 * BitOr(a \div 2, b \div 2)

(***************************************************************************)
(* Extrinsic constants (extrinsic/constants.ts, v4/Extrinsic.ts)           *)
(***************************************************************************)
BIT_SIGNED == 128
BIT_UNSIGNED == 0
UNMASK_VERSION == 127
DEFAULT_VERSION == 4
EXTRINSIC_VERSION == 4

VERSIONS ==
  << "ExtrinsicUnknown",  \* v0 is unknown
     "ExtrinsicUnknown",
     "ExtrinsicUnknown",
     "ExtrinsicUnknown",
     "ExtrinsicV4" >>

\* VERSIONS[i] of a JS array: undefined past the end
VersionsAt(i) == IF i + 1 \in DOMAIN VERSIONS THEN VERSIONS[i + 1] ELSE "undefined"

(***************************************************************************)
(* GenericExtrinsic: the static decode helpers.  The result of a decode is *)
(* the registry.createType call it ends in, [type, value, isSigned,        *)
(* version], the inner value of the extrinsic it was handed, or a thrown   *)
(* assertion.                                                              *)
(***************************************************************************)
\* _newFromValue indexing VERSIONS with the whole version byte
newFromValue_Unmasked(value, version) ==
  IF value.kind = "extrinsic"
  THEN [ok |-> TRUE, shared |-> TRUE, raw |-> value.raw]
  ELSE LET isSigned == BitAnd(ToInt(version), BIT_SIGNED) = BIT_SIGNED
           t        == VersionsAt(ToInt(version))
           type     == IF t # "undefined" THEN t ELSE VersionsAt(0)
       IN  [ok |-> TRUE, shared |-> FALSE, type |-> type, value |-> value,
            isSigned |-> isSigned, version |-> version]

newFromValue(value, version) ==
  IF value.kind = "extrinsic"
  THEN [ok |-> TRUE, shared |-> TRUE, raw |-> value.raw]
  ELSE LET isSigned == BitAnd(ToInt(version), BIT_SIGNED) = BIT_SIGNED
           t        == VersionsAt(BitAnd(ToInt(version), UNMASK_VERSION))
           type     == IF t # "undefined" THEN t ELSE VersionsAt(0)
       IN  [ok |-> TRUE, shared |-> FALSE, type |-> type, value |-> value,
            isSigned |-> isSigned, version |-> version]

\* _decodeU8a handing on the caller's version instead of data[0]
decodeU8a_CallerVersion(value, version) ==
  IF BLen(value) = 0
  THEN newFromValue([kind |-> "u8a", bytes |-> <<>>], version)
  ELSE LET c      == compactFromU8a(value)
           total  == c[1] + c[2]
       IN  IF ~(total <= BLen(value))
           THEN [ok |-> FALSE, error |-> "Extrinsic: length less than remainder"]
           ELSE LET data == subarray(value, c[1], total)
                IN  newFromValue([kind |-> "u8a", bytes |-> subarray(data, 1, BLen(data))],
                                 version)

decodeU8a(value, version) ==
  IF BLen(value) = 0
  THEN newFromValue([kind |-> "u8a", bytes |-> <<>>], version)
  ELSE LET c      == compactFromU8a(value)
           offset == c[1]
           length == c[2]
           total  == offset + length
       IN  IF ~(total <= BLen(value))
           THEN [ok |-> FALSE, error |-> "Extrinsic: length less than remainder"]
           ELSE LET data == subarray(value, offset, total)
                IN  newFromValue([kind |-> "u8a", bytes |-> subarray(data, 1, BLen(data))],
                                 BAt(data, 0))

\* value = [kind, ...]: "u8a" (also arrays and hex, after u8aToU8a), "call",
\* "extrinsic" or "object"; version = Undefined when the option is absent
decodeExtrinsic(value, version) ==
  LET v == IF version = Undefined THEN DEFAULT_VERSION ELSE version
  IN  IF value.kind = "u8a" THEN decodeU8a(value.bytes, v)
      ELSE IF value.kind = "call"
      THEN newFromValue([kind |-> "object", method |-> value.method], v)
      ELSE newFromValue(value, v)

(***************************************************************************)
(* Metadata (metadata/Metadata.ts).  Metadata blobs are short, so they are *)
(* plain sequences of bytes here.  Three arrays can be in play during one  *)
(* construction: the module's EMPTY_METADATA, the caller's array ("arg")   *)
(* and the fresh array a hex string converts to ("tmp").                   *)
(***************************************************************************)
\* magic u32 preceding the version id (0-based index of the version byte)
VERSION_IDX == 4

MAGIC == <<109, 101, 116, 97>>

\* value[VERSION_IDX]
VersionByte(bytes) ==
  IF VERSION_IDX + 1 \in DOMAIN bytes THEN bytes[VERSION_IDX + 1] ELSE Undefined

\* new MetadataVersioned(registry, bytes): does it decode?  dec is the set of
\* <<version, payload>> pairs the versioned decoders accept.
MetadataVersionedOk(bytes, dec) ==
  /\ Len(bytes) > VERSION_IDX
  /\ SubSeq(bytes, 1, VERSION_IDX) = MAGIC
  /\ <<bytes[VERSION_IDX + 1], SubSeq(bytes, VERSION_IDX + 2, Len(bytes))>> \in dec

\* toU8a without the empty-input sentinel
Metadata_toU8a_NoSentinel(_value, heap) ==
  IF _value.kind = "hex"
  THEN [ok |-> TRUE, ref |-> "tmp", heap |-> [heap EXCEPT !["tmp"] = hexToU8a(_value.digits)]]
  ELSE IF _value.kind = "undefined"
  THEN [ok |-> TRUE, ref |-> "tmp", heap |-> [heap EXCEPT !["tmp"] = <<>>]]
  ELSE IF _value.kind = "u8a"
  THEN [ok |-> TRUE, ref |-> _value.ref, heap |-> heap]
  ELSE [ok |-> FALSE]

\* toU8a of Metadata.ts.  _value = [kind, ...]; heap maps array names to
\* bytes.  Returns the array decodeMetadata goes on with, or throws.
Metadata_toU8a(_value, heap) ==
  IF _value.kind = "hex"
  THEN LET b == hexToU8a(_value.digits)
       IN  [ok |-> TRUE,
            ref |-> IF Len(b) = 0 THEN "EMPTY_METADATA" ELSE "tmp",
            heap |-> [heap EXCEPT !["tmp"] = b]]
  ELSE IF _value.kind \in {"u8a", "undefined"}
  THEN LET b == IF _value.kind = "undefined" THEN <<>> ELSE heap[_value.ref]
       IN  [ok |-> TRUE,
            ref |-> IF Len(b) = 0 THEN "EMPTY_METADATA" ELSE _value.ref,
            heap |-> heap]
  ELSE [ok |-> FALSE]   \* Error('Invalid type passed to Metadata constructor')

\* decodeMetadata.  log is the list of MetadataVersioned constructions made
\* so far in this call, each [bytes, ok]; a failed one throws an error object
\* identified by its position in the log (0: the Error thrown by toU8a).
RECURSIVE decodeMetadata(_, _, _, _)

\* one MetadataVersioned construction on array t.ref, and what follows a
\* failure: a failed version in retryOn is rewritten to nextOf[version] and
\* decoded again
DecodeWith(t, dec, log, retryOn, nextOf) ==
  LET value   == t.ref
      bytes   == t.heap[value]
      version == VersionByte(bytes)
      good    == MetadataVersionedOk(bytes, dec)
      log2    == Append(log, [bytes |-> bytes, ok |-> good])
  IN  IF good
      THEN [ok |-> TRUE, version |-> version, bytes |-> bytes, log |-> log2, heap |-> t.heap]
      ELSE IF version \in retryOn
      THEN decodeMetadata([kind |-> "u8a", ref |-> value],
                          [t.heap EXCEPT ![value][VERSION_IDX + 1] = nextOf[version]],
                          dec, log2)
      ELSE [ok |-> FALSE, error |-> Len(log2), log |-> log2, heap |-> t.heap]

\* decodeMetadata without the fallback
decodeMetadata_NoFallback(_value, heap, dec, log) ==
  LET t == Metadata_toU8a(_value, heap)
  IN  IF ~t.ok THEN [ok |-> FALSE, error |-> 0, log |-> log, heap |-> heap]
      ELSE DecodeWith(t, dec, log, {}, [v \in 0 .. 255 |-> 10])

\* decodeMetadata whose fallback goes on to the next version after 10 as well
decodeMetadata_Cascade(_value, heap, dec, log) ==
  LET t == Metadata_toU8a(_value, heap)
  IN  IF ~t.ok THEN [ok |-> FALSE, error |-> 0, log |-> log, heap |-> heap]
      ELSE DecodeWith(t, dec, log, {9, 10}, [v \in 0 .. 255 |-> v + 1])

\* decodeMetadata retrying as version 10 whatever version failed
decodeMetadata_AnyVersion(_value, heap, dec, log) ==
  LET t == Metadata_toU8a(_value, heap)
  IN  IF ~t.ok THEN [ok |-> FALSE, error |-> 0, log |-> log, heap |-> heap]
      ELSE DecodeWith(t, dec, log, (0 .. 255) \ {10}, [v \in 0 .. 255 |-> 10])

decodeMetadata(_value, heap, dec, log) ==
  IF _value.kind \in {"u8a", "undefined", "null", "hex"}
  THEN LET t == Metadata_toU8a(_value, heap)
       IN  IF ~t.ok
           THEN [ok |-> FALSE, error |-> 0, log |-> log, heap |-> heap]
           ELSE LET value   == t.ref
                    bytes   == t.heap[value]
                    version == VersionByte(bytes)
                    good    == MetadataVersionedOk(bytes, dec)
                    log2    == Append(log, [bytes |-> bytes, ok |-> good])
                IN  IF good
                    THEN [ok |-> TRUE, version |-> version, bytes |-> bytes,
                          log |-> log2, heap |-> t.heap]
                    ELSE IF version = 9
                    THEN decodeMetadata([kind |-> "u8a", ref |-> value],
                                        [t.heap EXCEPT ![value][VERSION_IDX + 1] = 10],
                                        dec, log2)
                    ELSE [ok |-> FALSE, error |-> Len(log2), log |-> log2, heap |-> t.heap]
  ELSE LET log2 == Append(log, [bytes |-> <<>>, ok |-> _value.valid])
       IN  IF _value.valid
           THEN [ok |-> TRUE, version |-> _value.version, bytes |-> <<>>,
                 log |-> log2, heap |-> heap]
           ELSE [ok |-> FALSE, error |-> Len(log2), log |-> log2, heap |-> heap]

(***************************************************************************)
(* The inner value of an extrinsic (ExtrinsicV4, ExtrinsicUnknown) and the *)
(* registry, as the specification describes them (sections 3, 4.3, 4.6,    *)
(* 6).  Signer, signature and era are one byte each; nonce and tip are     *)
(* single-byte compact integers.                                           *)
(***************************************************************************)
NoSignature == [signer |-> 0, signature |-> 0, era |-> 0, nonce |-> 0, tip |-> 0]

\* the length of an encoded signature block
SIGNATURE_LEN == 5

\* registry.createType(type, value, { isSigned, version })
createType(c) ==
  IF c.type = "ExtrinsicV4"
  THEN IF c.value.kind = "u8a"
       THEN LET b == c.value.bytes
            IN  IF c.isSigned
                THEN IF BLen(b) < SIGNATURE_LEN
                     THEN [ok |-> FALSE]
                     ELSE [ok |-> TRUE,
                           raw |-> [variant |-> "ExtrinsicV4", version |-> EXTRINSIC_VERSION,
                                    isSigned |-> TRUE,
                                    sig |-> [signer |-> BAt(b, 0), signature |-> BAt(b, 1),
                                             era |-> BAt(b, 2), nonce |-> BAt(b, 3) \div 4,
                                             tip |-> BAt(b, 4) \div 4],
                                    method |-> BDrop(b, SIGNATURE_LEN)]]
                ELSE [ok |-> TRUE,
                      raw |-> [variant |-> "ExtrinsicV4", version |-> EXTRINSIC_VERSION,
                               isSigned |-> FALSE, sig |-> NoSignature, method |-> b]]
       ELSE [ok |-> TRUE,
             raw |-> [variant |-> "ExtrinsicV4", version |-> EXTRINSIC_VERSION,
                      isSigned |-> FALSE, sig |-> NoSignature, method |-> c.value.method]]
  ELSE [ok |-> TRUE,
        raw |-> [variant |-> "ExtrinsicUnknown",
                 version |-> BitAnd(ToInt(c.version), UNMASK_VERSION),
                 isSigned |-> c.isSigned, sig |-> NoSignature, method |-> <<>>]]

\* _raw.toU8a()
Raw_toU8a(raw) ==
  IF raw.isSigned
  THEN BCat(FromSeq(<<raw.sig.signer, raw.sig.signature, raw.sig.era,
                      raw.sig.nonce * 4, raw.sig.tip * 4>>),
            raw.method)
  ELSE raw.method

\* registry.hash(bytes): the injected digest, here a polynomial checksum
RECURSIVE registryHash(_)
registryHash(b) ==
  IF b = <<>> THEN 7
  ELSE (Head(b)[1] + 1 + 31 * registryHash(BDrop(b, 1))) % 65521

\* the signature an account produces over a payload (keyring, injected)
accountSign(account, method, options) ==
  1 + ((account * 16 + options.nonce * 4 + options.tip + registryHash(method)) % 250)

\* the fixed signature signFake injects
FAKE_SIGNATURE == 66

\* ExtrinsicV4.addSignature / sign / signFake: replace the signature block
V4_addSignature(raw, signer, signature, payload) ==
  [raw EXCEPT !.isSigned = TRUE,
              !.sig = [signer |-> signer, signature |-> signature, era |-> payload.era,
                       nonce |-> payload.nonce, tip |-> payload.tip]]

V4_sign(raw, account, options) ==
  V4_addSignature(raw, account, accountSign(account, raw.method, options), options)

V4_signFake(raw, signer, options) ==
  V4_addSignature(raw, signer, FAKE_SIGNATURE, options)

(***************************************************************************)
(* GenericExtrinsic objects.  st = [raws, objs]: raws maps an inner-value  *)
(* identity to the value, objs maps an object name to [live, raw,          *)
(* hashCache, hashOf, computes].  hashOf (the encoding the cached hash was *)
(* computed from) and computes (hash computations since the object's last  *)
(* signature change) are history, not program state.                       *)
(***************************************************************************)
Objects == {"A", "B"}
RawIds == {1, 2}
NoRaw == [variant |-> "none"]
NoObject == [live |-> FALSE, raw |-> 0, hashCache |-> Undefined, hashOf |-> <<>>, computes |-> 0]

RawOf(st, o) == st.raws[st.objs[o].raw]

\* ExtrinsicBase getters
isSigned(st, o) == RawOf(st, o).isSigned

type(st, o) == RawOf(st, o).version

\* version without the signed bit
version_NoSignedBit(st, o) == type(st, o)

version(st, o) ==
  BitOr(type(st, o), IF isSigned(st, o) THEN BIT_SIGNED ELSE BIT_UNSIGNED)

\* GenericExtrinsic.toU8a(isBare)
Extrinsic_toU8a(st, o, isBare) ==
  LET encoded == BCat(FromSeq(<<version(st, o) % 256>>), Raw_toU8a(RawOf(st, o)))
  IN  IF isBare THEN encoded ELSE compactAddLength(encoded)

\* Base.hash: registry.hash(this.toU8a())
superHash(st, o) == registryHash(Extrinsic_toU8a(st, o, FALSE))

\* get hash: [st, ret]
hash(st, o) ==
  LET st2 == IF st.objs[o].hashCache = Undefined
             THEN [st EXCEPT !.objs[o].hashCache = superHash(st, o),
                             !.objs[o].hashOf = Extrinsic_toU8a(st, o, FALSE),
                             !.objs[o].computes = @ + 1]
             ELSE st
  IN  [st |-> st2, ret |-> st2.objs[o].hashCache]

\* addSignature / sign / signFake.  throws: the inner call threw, and the
\* statement after it did not run.
addSignature(st, o, signer, signature, payload, throws) ==
  IF throws THEN st
  ELSE [st EXCEPT !.raws[st.objs[o].raw] = V4_addSignature(@, signer, signature, payload),
                  !.objs[o].hashCache = Undefined,
                  !.objs[o].computes = 0]

\* sign leaving #hashCache as it was
sign_KeepsHashCache(st, o, account, options, throws) ==
  IF throws THEN st
  ELSE [st EXCEPT !.raws[st.objs[o].raw] = V4_sign(@, account, options)]

sign(st, o, account, options, throws) ==
  IF throws THEN st
  ELSE [st EXCEPT !.raws[st.objs[o].raw] = V4_sign(@, account, options),
                  !.objs[o].hashCache = Undefined,
                  !.objs[o].computes = 0]

\* signFake that clears #hashCache and never reaches the inner value
signFake_NotDelegated(st, o, signer, options, throws) ==
  IF throws THEN st
  ELSE [st EXCEPT !.objs[o].hashCache = Undefined,
                  !.objs[o].computes = 0]

signFake(st, o, signer, options, throws) ==
  IF throws THEN st
  ELSE [st EXCEPT !.raws[st.objs[o].raw] = V4_signFake(@, signer, options),
                  !.objs[o].hashCache = Undefined,
                  !.objs[o].computes = 0]

\* new GenericExtrinsic(registry, value, { version }) as object o
FreshRaw(st) == CHOOSE i \in RawIds : st.raws[i] = NoRaw

newExtrinsic(st, o, value, versionOpt) ==
  LET d == decodeExtrinsic(value, versionOpt)
  IN  IF ~d.ok THEN [ok |-> FALSE, st |-> st]
      ELSE IF d.shared
      THEN [ok |-> TRUE,
            st |-> [st EXCEPT !.objs[o] = [NoObject EXCEPT !.live = TRUE, !.raw = d.raw]]]
      ELSE LET c == createType(d)
               i == FreshRaw(st)
           IN  IF ~c.ok THEN [ok |-> FALSE, st |-> st]
               ELSE [ok |-> TRUE,
                     st |-> [st EXCEPT !.raws[i] = c.raw,
                                       !.objs[o] = [NoObject EXCEPT !.live = TRUE, !.raw = i]]]

(***************************************************************************)
(* Text objects.  A Text is [live, str, initialU8aLength, override, from]: *)
(* str is the wrapped String value, override the #override field; from is  *)
(* the constructor's argument, kept as history.                            *)
(***************************************************************************)
TextObjects == {"T", "U"}

Null == [isNull |-> TRUE, str |-> <<>>]

NoText ==
  [live |-> FALSE, str |-> <<>>, initialU8aLength |-> 0, override |-> Null,
   from |-> [kind |-> "null"]]

\* new Text(registry, value)
Text_new(value) ==
  LET d == decodeText(value)
  IN  IF ~d.ok THEN [ok |-> FALSE, error |-> d.error]
      ELSE [ok |-> TRUE,
            obj |-> [live |-> TRUE, str |-> d.str, initialU8aLength |-> d.len,
                     override |-> Null, from |-> value]]

Text_setOverride(t, override) ==
  [t EXCEPT !.override = [isNull |-> FALSE, str |-> override]]

\* this.#override || super.toString(): null and "" are falsy
Text_toString(t) ==
  IF ~t.override.isNull /\ t.override.str # <<>> THEN t.override.str ELSE t.str

\* toU8a encoding what toString() shows
Text_toU8a_FromToString(t, isBare) ==
  LET encoded == stringToU8a(Text_toString(t))
  IN  IF isBare THEN encoded ELSE compactAddLength(encoded)

\* toU8a that never adds the length prefix
Text_toU8a_NoPrefix(t, isBare) == stringToU8a(t.str)

Text_toU8a(t, isBare) ==
  LET encoded == stringToU8a(t.str)
  IN  IF isBare THEN encoded ELSE compactAddLength(encoded)

Text_encodedLength(t) == BLen(Text_toU8a(t, FALSE))

Text_hash(t) == registryHash(Text_toU8a(t, FALSE))

Text_toHex(t) == u8aToHex(Text_toU8a(t, TRUE))

Text_toJSON(t) == Text_toString(t)

Text_toHuman(t) == Text_toJSON(t)

Text_length(t) == BLen(t.str)

Text_isEmpty(t) == Text_length(t) = 0

\* eq(other): other = [kind, ...], a string when kind is "string"
Text_eq(t, other) ==
  IF other.kind = "string" THEN Text_toString(t) = other.str ELSE FALSE

(***************************************************************************)
(* Derives (api-derive/src/bundle.ts).  An api is [query, moduleInstances]: *)
(* query is the set of keys of api.query, moduleInstances what the         *)
(* registry's getModuleInstances returns per module name for the runtime's *)
(* spec name, [present |-> FALSE] when it returns undefined.  A derives    *)
(* object is the set of its section names.                                 *)
(***************************************************************************)
derive ==
  {"accounts", "balances", "bounties", "chain", "contracts", "council", "crowdloan",
   "democracy", "elections", "imOnline", "membership", "parachains", "session", "society",
   "staking", "technicalCommittee", "treasury", "tx"}

Avail(instances, withDetect) ==
  [kind |-> "avail", instances |-> instances, withDetect |-> withDetect]

checks ==
  [contracts          |-> Avail(<<"contracts">>, FALSE),
   council            |-> Avail(<<"council">>, TRUE),
   crowdloan          |-> Avail(<<"crowdloan">>, FALSE),
   democracy          |-> Avail(<<"democracy">>, FALSE),
   elections          |-> Avail(<<"phragmenElection", "electionsPhragmen", "elections", "council">>, TRUE),
   imOnline           |-> Avail(<<"imOnline">>, FALSE),
   membership         |-> Avail(<<"membership">>, FALSE),
   parachains         |-> Avail(<<"parachains", "registrar">>, FALSE),
   session            |-> Avail(<<"session">>, FALSE),
   society            |-> Avail(<<"society">>, FALSE),
   staking            |-> Avail(<<"staking">>, FALSE),
   technicalCommittee |-> Avail(<<"technicalCommittee">>, TRUE),
   treasury           |-> Avail(<<"treasury">>, FALSE)]

\* the properties every object literal inherits from Object.prototype
ObjectPrototypeNames ==
  {"constructor", "hasOwnProperty", "isPrototypeOf", "propertyIsEnumerable",
   "toLocaleString", "toString", "valueOf", "__proto__"}

\* checks[s]: the own property, else the inherited one, else undefined
ChecksAt(s) ==
  IF s \in DOMAIN checks THEN checks[s]
  ELSE IF s \in ObjectPrototypeNames THEN [kind |-> "inherited"]
  ELSE [kind |-> "undefined"]

\* api.registry.getModuleInstances(specName, moduleName) || []
getModuleInstances(api, moduleName) ==
  LET r == api.moduleInstances[moduleName]
  IN  IF r.present THEN r.list ELSE <<>>

\* isIncluded(s) of injectFunctions: [ok, ret]; ok is FALSE when it throws
\* (checks[s] holds no instances array: TypeError on .some)
isIncluded(api, s) ==
  LET c == ChecksAt(s)
      filterQueryKeys(q) == q \in api.query
      filterInstances(q) ==
        LET inst == getModuleInstances(api, q)
        IN  \E k \in DOMAIN inst : filterQueryKeys(inst[k])
  IN  IF c.kind = "undefined" THEN [ok |-> TRUE, ret |-> TRUE]
      ELSE IF c.kind = "inherited" THEN [ok |-> FALSE, ret |-> FALSE]
      ELSE [ok |-> TRUE,
            ret |-> \/ \E i \in DOMAIN c.instances : filterQueryKeys(c.instances[i])
                    \/ /\ c.withDetect
                       /\ \E i \in DOMAIN c.instances : filterInstances(c.instances[i])]

\* injectFunctions(instanceId, api, derives): the sections of the result
injectFunctions(api, derives) ==
  IF \E name \in derives : ~isIncluded(api, name).ok
  THEN [ok |-> FALSE, sections |-> {}]
  ELSE [ok |-> TRUE, sections |-> {name \in derives : isIncluded(api, name).ret}]

\* getAvailableDerives(instanceId, api, custom)
getAvailableDerives(api, custom) ==
  LET a == injectFunctions(api, derive)
      b == injectFunctions(api, custom)
  IN  IF a.ok /\ b.ok
      THEN [ok |-> TRUE, sections |-> a.sections \cup b.sections]
      ELSE [ok |-> FALSE, sections |-> {}]

(***************************************************************************)
(* Extrinsics from metadata (fromMetadata).  Names are sequences of        *)
(* characters.  A module is [name, calls], calls an Option of a list of    *)
(* call metadata: [isSome, list], each call [name].                        *)
(***************************************************************************)
LowerOf == [c \in {"A", "B", "S"} |-> IF c = "A" THEN "a" ELSE IF c = "B" THEN "b" ELSE "s"]
UpperOf == [c \in {"a", "b", "s"} |-> IF c = "a" THEN "A" ELSE IF c = "b" THEN "B" ELSE "S"]

IsUpper(c) == c \in DOMAIN LowerOf
IsLower(c) == c \in DOMAIN UpperOf
toLowerCase(c) == IF IsUpper(c) THEN LowerOf[c] ELSE c
toUpperCase(c) == IF IsLower(c) THEN UpperOf[c] ELSE c

\* stringCamelCase on names made of letters and "_", without two capitals in
\* a row: a word starts after "_" and at a capital that follows a small
\* letter; every word is lowered and every word but the first capitalised.
\* out: the characters written so far; boundary: a word starts at the next
\* letter; lastLower: the character before was a small letter
RECURSIVE camelFrom(_, _, _, _)
camelFrom(name, out, boundary, lastLower) ==
  IF name = <<>> THEN out
  ELSE LET c == Head(name)
       IN  IF c = "_" THEN camelFrom(Tail(name), out, TRUE, FALSE)
           ELSE LET starts == boundary \/ (lastLower /\ IsUpper(c))
                    w      == IF starts /\ out # <<>> THEN toUpperCase(c) ELSE toLowerCase(c)
                IN  camelFrom(Tail(name), Append(out, w), FALSE, IsLower(c))

stringCamelCase(name) == camelFrom(name, <<>>, FALSE, FALSE)

\* the static extrinsics the result starts from
extrinsics == <<>>

\* result[key] = value on an object
Put(obj, key, value) ==
  [k \in DOMAIN obj \cup {key} |-> IF k = key THEN value ELSE obj[k]]

\* createUnchecked(section, sectionIndex, methodIndex, callMetadata): the
\* constructor of calls with callIndex [sectionIndex, methodIndex]
createUnchecked(section, sectionIndex, methodIndex, callMetadata) ==
  [section |-> section, callIndex |-> <<sectionIndex, methodIndex>>, meta |-> callMetadata]

\* modul.calls.unwrap().reduce(...): calls from position methodIndex on
RECURSIVE reduceCalls(_, _, _, _, _)
reduceCalls(newModule, calls, section, sectionIndex, methodIndex) ==
  IF methodIndex >= Len(calls) THEN newModule
  ELSE LET callMetadata == calls[methodIndex + 1]
           method       == stringCamelCase(callMetadata.name)
       IN  reduceCalls(Put(newModule, method,
                           createUnchecked(section, sectionIndex, methodIndex, callMetadata)),
                       calls, section, sectionIndex, methodIndex + 1)

\* the filter of fromMetadata: modul.calls.isSome
hasCalls(modul) == modul.calls.isSome

\* .reduce(...) over the filtered modules, from position sectionIndex on
RECURSIVE reduceModules(_, _, _)
reduceModules(result, filtered, sectionIndex) ==
  IF sectionIndex >= Len(filtered) THEN result
  ELSE LET modul   == filtered[sectionIndex + 1]
           section == stringCamelCase(modul.name)
       IN  reduceModules(Put(result, section,
                             reduceCalls(<<>>, modul.calls.list, section, sectionIndex, 0)),
                         filtered, sectionIndex + 1)

\* fromMetadata numbering the modules by their position in the metadata
fromMetadata_UnfilteredIndex(modules) ==
  LET RECURSIVE go(_, _)
      go(result, i) ==
        IF i >= Len(modules) THEN result
        ELSE IF ~hasCalls(modules[i + 1]) THEN go(result, i + 1)
        ELSE LET section == stringCamelCase(modules[i + 1].name)
             IN  go(Put(result, section,
                        reduceCalls(<<>>, modules[i + 1].calls.list, section, i, 0)),
                    i + 1)
  IN  go(extrinsics, 0)

fromMetadata(modules) ==
  reduceModules(extrinsics, SelectSeq(modules, hasCalls), 0)

(***************************************************************************)
(* compareArray (codec/utils/compareArray.ts).  An element is undefined, a *)
(* number, or a codec holding a number (an object with an eq method).      *)
(***************************************************************************)
UndefinedElement == [kind |-> "undefined", v |-> 0]

\* hasEq(v): v has an eq method
hasEq(v) == v.kind = "codec"

\* v.eq(other) of a codec: other is the same number, bare or wrapped
Codec_eq(v, other) == other.kind \in {"num", "codec"} /\ other.v = v.v

\* v !== other for a v without eq (undefined or a number)
StrictNotEqual(v, other) == v # other

\* isUndefined(value)
isUndefined(value) == value.kind = "undefined"

\* a.find((v, index) => hasEq(v) ? !v.eq(b[index]) : v !== b[index]), from
\* position index on: the first element the callback accepts, else undefined
RECURSIVE find(_, _, _)
find(a, b, index) ==
  IF index >= Len(a) THEN UndefinedElement
  ELSE LET v     == a[index + 1]
           found == IF hasEq(v) THEN ~Codec_eq(v, b[index + 1])
                    ELSE StrictNotEqual(v, b[index + 1])
       IN  IF found THEN v ELSE find(a, b, index + 1)

\* compareArray(a, b); b = [isArray, elems]
compareArray(a, b) ==
  IF b.isArray
  THEN (Len(a) = Len(b.elems)) /\ isUndefined(find(a, b.elems, 0))
  ELSE FALSE

(***************************************************************************)
(* Values the variables of one part hold while another part is checked     *)
(***************************************************************************)
SENTINEL == MAGIC \o <<9>>

IdleText == textIn = [kind |-> "u8a", bytes |-> <<>>] /\ textOut = [done |-> FALSE]
IdleDecode ==
  /\ decIn = [value |-> [kind |-> "u8a", bytes |-> <<>>], version |-> Undefined]
  /\ decOut = [done |-> FALSE]
IdleMeta ==
  /\ EMPTY_METADATA = SENTINEL
  /\ decoder = {<<9, <<>>>>}
  /\ metaCall = [done |-> FALSE]
IdleExt ==
  /\ raws = [i \in RawIds |-> NoRaw]
  /\ objs = [o \in Objects |-> NoObject]
  /\ extOp = [op |-> "none"]

IdleObj ==
  /\ texts = [o \in TextObjects |-> NoText]
  /\ textOp = [op |-> "none"]
IdleDerive ==
  /\ deriveIn = [done |-> FALSE]
  /\ deriveOut = [done |-> FALSE]
IdleDecorate ==
  /\ metadataIn = <<>>
  /\ extrinsicsOut = [done |-> FALSE]
IdleCompare ==
  /\ cmpIn = [done |-> FALSE]
  /\ cmpOut = [done |-> FALSE]

textVars == <<textIn, textOut>>
decVars == <<decIn, decOut>>
metaVars == <<EMPTY_METADATA, decoder, metaCall>>
extVars == <<raws, objs, extOp>>
objVars == <<texts, textOp>>
deriveVars == <<deriveIn, deriveOut>>
decorateVars == <<metadataIn, extrinsicsOut>>
cmpVars == <<cmpIn, cmpOut>>

(***************************************************************************)
(* TextSpec: one Text construction from bytes                              *)
(***************************************************************************)
SmallLens == 0 .. MaxSmall
BigLens == (MAX_LENGTH - Near) .. (MAX_LENGTH + Near)

\* the ways a length n is written as a compact prefix: canonical, four-byte
\* mode, big-integer mode with four bytes, and (small n) two-byte mode
Prefixes(n) ==
  {compactToU8a(n), FromSeq(LEBytes(n * 4 + 2, 4)), FromSeq(<<3>> \o LEBytes(n, 4))}
  \cup (IF n < 64 THEN {FromSeq(LEBytes(n * 4 + 1, 2))} ELSE {})

\* bodies: m bytes "a" followed by k bytes "b"
Bodies == {BCat(Run(97, m), Run(98, k)) : m \in SmallLens \cup BigLens, k \in 0 .. 1}

TextInputs ==
  {[kind |-> kd, bytes |-> BCat(p, body)] :
     kd \in {"u8a", "raw"},
     p \in UNION {Prefixes(n) : n \in SmallLens \cup BigLens} \cup {<<>>, FromSeq(<<1>>), FromSeq(<<2, 0>>)},
     body \in Bodies}

TextInit ==
  /\ textIn \in TextInputs
  /\ textOut = [done |-> FALSE]
  /\ IdleDecode /\ IdleMeta /\ IdleExt
  /\ IdleObj /\ IdleDerive /\ IdleDecorate /\ IdleCompare

\* new Text(registry, value): the constructor's call of decodeText
TextNew ==
  /\ ~textOut.done
  /\ textOut' = [done |-> TRUE, res |-> decodeText(textIn)]
  /\ UNCHANGED <<textIn, decVars, metaVars, extVars, objVars, deriveVars, decorateVars, cmpVars>>

TextNext == TextNew

TextSpec == TextInit /\ [][TextNext]_vars

\* positions of a string of length n that the checks compare one by one
SamplePositions(n) == {i \in {0, 1, 2, n \div 2, n - 2, n - 1} : 0 <= i /\ i < n}

\* C8: decoding a Text from a non-empty Uint8Array that is not a Raw succeeds
\* exactly when the compact-declared length is at most 131072 and prefix size
\* + declared length is at most the buffer length; on success the text is the
\* declared-length slice after the prefix and the consumed count is prefix +
\* declared length; otherwise it throws.  A zero-length array decodes to ""
\* with 0 bytes consumed.
C8_TextDecodeBounds ==
  (textOut.done /\ textIn.kind = "u8a") =>
    LET b == textIn.bytes
        r == textOut.res
    IN  IF BLen(b) = 0
        THEN r.ok /\ r.str = <<>> /\ r.len = 0
        ELSE LET c    == compactFromU8a(b)
                 fits == c[2] <= 131072 /\ c[1] + c[2] <= BLen(b)
             IN  /\ r.ok <=> fits
                 /\ r.ok => /\ r.len = c[1] + c[2]
                            /\ BLen(r.str) = c[2]
                            /\ \A i \in SamplePositions(c[2]) : BAt(r.str, i) = BAt(b, c[1] + i)

\* a decode at the 128 KiB boundary that succeeds and leaves trailing bytes
C8_Witness ==
  /\ textOut.done /\ textIn.kind = "u8a"
  /\ textOut.res.ok
  /\ compactFromU8a(textIn.bytes)[2] = 131072
  /\ textOut.res.len < BLen(textIn.bytes)

(***************************************************************************)
(* OverrideSpec: one Text, T, constructed from a string or from bytes,     *)
(* then given overrides and read in any order                              *)
(***************************************************************************)
\* "", "a", "ab", "e-acute", and the hex string "0x6162"
SmallStrings ==
  {<<>>, FromSeq(<<97>>), FromSeq(<<97, 98>>), FromSeq(<<233>>),
   FromSeq(<<48, 120, 54, 49, 54, 50>>)}

\* the strings setOverride is called with: "", "x", "ab", "o-umlaut"
Overrides == {<<>>, FromSeq(<<120>>), FromSeq(<<97, 98>>), FromSeq(<<246>>)}

SmallTextValues ==
  {[kind |-> "string", str |-> s] : s \in SmallStrings}
  \cup {[kind |-> "null"],
        [kind |-> "u8a", bytes |-> FromSeq(<<8, 97, 98>>)],
        [kind |-> "raw", bytes |-> FromSeq(<<97, 98>>)]}

OverrideInit ==
  /\ \E v \in SmallTextValues :
       /\ texts = [o \in TextObjects |-> IF o = "T" THEN Text_new(v).obj ELSE NoText]
       /\ textOp = [op |-> "new", obj |-> "T", arg |-> v, ok |-> TRUE, ret |-> Undefined]
  /\ IdleText /\ IdleDecode /\ IdleMeta /\ IdleExt
  /\ IdleDerive /\ IdleDecorate /\ IdleCompare

\* a method of o that only reads: the call and what it returned
TextRead(o, op, arg, ret) ==
  /\ texts[o].live
  /\ textOp' = [op |-> op, obj |-> o, arg |-> arg, ok |-> TRUE, ret |-> ret]
  /\ UNCHANGED <<texts, textVars, decVars, metaVars, extVars, deriveVars, decorateVars, cmpVars>>

\* o.setOverride(override)
TextSetOverride(o) ==
  /\ texts[o].live
  /\ \E override \in Overrides :
       /\ texts' = [texts EXCEPT ![o] = Text_setOverride(@, override)]
       /\ textOp' = [op |-> "setOverride", obj |-> o, arg |-> override, ok |-> TRUE,
                     ret |-> Undefined]
  /\ UNCHANGED <<textVars, decVars, metaVars, extVars, deriveVars, decorateVars, cmpVars>>

TextToU8a(o) ==
  \E isBare \in BOOLEAN : TextRead(o, "toU8a", isBare, Text_toU8a(texts[o], isBare))

TextEncodedLength(o) == TextRead(o, "encodedLength", Undefined, Text_encodedLength(texts[o]))

TextToHex(o) == TextRead(o, "toHex", Undefined, Text_toHex(texts[o]))

TextHash(o) == TextRead(o, "hash", Undefined, Text_hash(texts[o]))

TextToString(o) == TextRead(o, "toString", Undefined, Text_toString(texts[o]))

TextToJSON(o) == TextRead(o, "toJSON", Undefined, Text_toJSON(texts[o]))

TextToHuman(o) == TextRead(o, "toHuman", Undefined, Text_toHuman(texts[o]))

TextEq(o) ==
  \E s \in SmallStrings \cup Overrides :
    TextRead(o, "eq", s, Text_eq(texts[o], [kind |-> "string", str |-> s]))

OverrideNext ==
  \/ TextSetOverride("T")
  \/ TextToU8a("T")
  \/ TextEncodedLength("T")
  \/ TextToHex("T")
  \/ TextHash("T")
  \/ TextToString("T")
  \/ TextToJSON("T")
  \/ TextToHuman("T")
  \/ TextEq("T")

OverrideSpec == OverrideInit /\ [][OverrideNext]_vars

\* the string a Text was constructed with, from the constructor's argument
Constructed(t) == decodeText(t.from).str

\* the override toString shows: set and not empty
ShownOverride(t) == ~t.override.isNull /\ t.override.str # <<>>

\* C11: for a Text, any sequence of setOverride calls leaves toU8a(true),
\* toU8a(false), encodedLength, toHex and hash unchanged: they encode the
\* value the Text was constructed with; toString, toJSON, toHuman and eq show
\* the override (when it is a non-empty string).
C11_OverrideNotEncoded ==
  \A o \in TextObjects :
    (texts[o].live /\ textOp.op # "none" /\ textOp.obj = o) =>
      LET t    == texts[o]
          enc  == stringToU8a(Constructed(t))
          full == BCat(compactToU8a(BLen(enc)), enc)
          show == IF ShownOverride(t) THEN t.override.str ELSE Constructed(t)
      IN  /\ textOp.op = "toU8a" => textOp.ret = IF textOp.arg THEN enc ELSE full
          /\ textOp.op = "encodedLength" => textOp.ret = BLen(full)
          /\ textOp.op = "toHex" => textOp.ret = u8aToHex(enc)
          /\ textOp.op = "hash" => textOp.ret = registryHash(full)
          /\ textOp.op \in {"toString", "toJSON", "toHuman"} => textOp.ret = show
          /\ textOp.op = "eq" => (textOp.ret <=> textOp.arg = show)

\* the prefixed encoding read from a Text whose override differs from the
\* string it was constructed with
C11_Witness ==
  /\ texts["T"].live /\ ShownOverride(texts["T"])
  /\ texts["T"].override.str # texts["T"].str
  /\ texts["T"].str # <<>>
  /\ textOp.op = "toU8a" /\ textOp.obj = "T" /\ textOp.arg = FALSE
  /\ textOp.ret = compactAddLength(stringToU8a(texts["T"].str))

(***************************************************************************)
(* RoundTripSpec: a Text T constructed from a string or from a framed byte *)
(* input, encoded, and a second Text U decoded from T's encoding           *)
(***************************************************************************)
\* strings of one to three code units: ASCII, two- and three-byte UTF-8
\* forms, U+FFFD itself, a lone surrogate, a surrogate pair, a byte order
\* mark in front, and hex strings
ShortStrings ==
  {<<>>, FromSeq(<<97>>), FromSeq(<<97, 98>>), FromSeq(<<233>>), FromSeq(<<8364, 97>>),
   FromSeq(<<65533>>), FromSeq(<<55296>>), FromSeq(<<97, 56832>>), FromSeq(<<55357, 56832>>),
   FromSeq(<<65279, 97>>), FromSeq(<<97, 65279>>),
   FromSeq(<<48, 120>>), FromSeq(<<48, 120, 54, 49>>), FromSeq(<<48, 120, 54>>)}

\* strings of about MAX_LENGTH code units, all ASCII or with one two-byte
\* character in front
LongStrings ==
  {Run(97, n) : n \in BigLens} \cup {BCat(Run(233, 1), Run(97, n - 1)) : n \in BigLens}

\* bodies of framed inputs: ASCII of small and large length, valid
\* multi-byte sequences, a byte order mark, and malformed sequences
ShortBodies ==
  {FromSeq(<<195, 169>>), FromSeq(<<226, 130, 172>>), FromSeq(<<240, 159, 152, 128>>),
   FromSeq(<<239, 187, 191, 97>>), FromSeq(<<97, 239, 187, 191>>),
   FromSeq(<<255>>), FromSeq(<<195>>), FromSeq(<<237, 160, 128>>), FromSeq(<<192, 128>>)}

FramedBodies == {Run(97, n) : n \in SmallLens \cup BigLens} \cup ShortBodies

\* prefix + exactly the declared body
FramedInputs == UNION {{BCat(p, body) : p \in Prefixes(BLen(body))} : body \in FramedBodies}

RoundTripValues ==
  {[kind |-> "string", str |-> s] : s \in ShortStrings \cup LongStrings}
  \cup {[kind |-> "u8a", bytes |-> b] : b \in FramedInputs}

RoundTripInit ==
  /\ IdleObj
  /\ IdleText /\ IdleDecode /\ IdleMeta /\ IdleExt
  /\ IdleDerive /\ IdleDecorate /\ IdleCompare

\* o = new Text(registry, value), for the values of the round trips
TextNewFromValue(o) ==
  /\ ~texts[o].live
  /\ \E v \in RoundTripValues :
       LET n == Text_new(v)
       IN  /\ texts' = IF n.ok THEN [texts EXCEPT ![o] = n.obj] ELSE texts
           /\ textOp' = [op |-> "new", obj |-> o, arg |-> v, ok |-> n.ok, ret |-> Undefined]
  /\ UNCHANGED <<textVars, decVars, metaVars, extVars, deriveVars, decorateVars, cmpVars>>

\* p = new Text(registry, o.toU8a())
TextNewFromEncoded(p, o) ==
  /\ texts[o].live /\ ~texts[p].live
  /\ LET v == [kind |-> "u8a", bytes |-> Text_toU8a(texts[o], FALSE)]
         n == Text_new(v)
     IN  /\ texts' = IF n.ok THEN [texts EXCEPT ![p] = n.obj] ELSE texts
         /\ textOp' = [op |-> "new", obj |-> p, arg |-> v, ok |-> n.ok, ret |-> Undefined]
  /\ UNCHANGED <<textVars, decVars, metaVars, extVars, deriveVars, decorateVars, cmpVars>>

RoundTripNext ==
  \/ TextNewFromValue("T")
  \/ TextSetOverride("T")
  \/ TextToU8a("T")
  \/ TextNewFromEncoded("U", "T")

RoundTripSpec == RoundTripInit /\ [][RoundTripNext]_vars

\* no surrogate code unit outside a high-low pair
RECURSIVE IsWellFormedUtf16(_)
IsWellFormedUtf16(s) ==
  IF s = <<>> THEN TRUE
  ELSE LET c == Head(s)[1]
       IN  IF IsHighSurrogate(c)
           THEN IsLowSurrogate(BAt(s, 1)) /\ IsWellFormedUtf16(BDrop(s, 2))
           ELSE ~IsLowSurrogate(c) /\ IsWellFormedUtf16(Tail(s))

\* well-formed UTF-8 (Unicode table 3-7)
RECURSIVE IsUtf8(_)
IsUtf8(b) ==
  IF b = <<>> THEN TRUE
  ELSE LET c == Head(b)[1]
       IN  IF c < 128 THEN IsUtf8(Tail(b))
           ELSE IF c >= 194 /\ c < 224
           THEN IsCont(BAt(b, 1)) /\ IsUtf8(BDrop(b, 2))
           ELSE IF c >= 224 /\ c < 240
           THEN IsSecond(c, BAt(b, 1)) /\ IsCont(BAt(b, 2)) /\ IsUtf8(BDrop(b, 3))
           ELSE IF c >= 240 /\ c < 245
           THEN /\ IsSecond(c, BAt(b, 1)) /\ IsCont(BAt(b, 2)) /\ IsCont(BAt(b, 3))
                /\ IsUtf8(BDrop(b, 4))
           ELSE FALSE

\* "0x" followed by hex digits only
LooksHex(s) ==
  /\ BAt(s, 0) = 48 /\ BAt(s, 1) = 120
  /\ \A i \in DOMAIN BDrop(s, 2) : IsHexChar(BDrop(s, 2)[i][1])

\* a string both conversions keep: not a hex string (which the constructor
\* converts), no lone surrogate, no byte order mark in front, and at most
\* MAX_LENGTH bytes of UTF-8
KeptString(s) ==
  /\ ~LooksHex(s)
  /\ IsWellFormedUtf16(s)
  /\ BAt(s, 0) # BOM
  /\ BLen(stringToU8a(s)) <= 131072

\* a framed input in canonical form: the shortest compact prefix of a length
\* of at most MAX_LENGTH, then exactly that many bytes of well-formed UTF-8
\* that do not start with a byte order mark
CanonicalInput(b) ==
  LET c == compactFromU8a(b)
  IN  /\ BLen(b) > 0
      /\ c[1] + c[2] = BLen(b)
      /\ c[2] <= 131072
      /\ BTake(b, c[1]) = compactToU8a(c[2])
      /\ IsUtf8(BDrop(b, c[1]))
      /\ BTake(BDrop(b, c[1]), 3) # FromSeq(<<239, 187, 191>>)

\* C12 as stated: for every string s, a Text decoded from Text(s).toU8a() is
\* eq to s and reports the whole encoding as consumed; and for every
\* length-prefixed byte input b (prefix + exactly the declared body),
\* Text(b) constructs and Text(b).toU8a() equals b.
C12_RoundTripAny ==
  /\ (textOp.op = "new" /\ textOp.obj = "U" /\ texts["T"].from.kind = "string") =>
       /\ textOp.ok
       /\ Text_eq(texts["U"], texts["T"].from)
       /\ texts["U"].initialU8aLength = BLen(textOp.arg.bytes)
  /\ (textOp.op = "new" /\ textOp.obj = "T" /\ textOp.arg.kind = "u8a") => textOp.ok
  /\ (textOp.op = "toU8a" /\ textOp.obj = "T" /\ texts["T"].from.kind = "u8a") =>
       (textOp.arg = FALSE => textOp.ret = texts["T"].from.bytes)

\* C12, amended: for every string s that is not "0x" followed by hex digits,
\* has no lone surrogate and no byte order mark in front, and whose UTF-8
\* encoding is at most 131072 bytes, a Text decoded from Text(s).toU8a() is eq to s and
\* reports the whole encoding as consumed; and for every byte input b made of
\* the shortest compact prefix of a length n <= 131072 followed by exactly n
\* bytes of well-formed UTF-8 not starting with a byte order mark, Text(b)
\* constructs and Text(b).toU8a() equals b.
C12_RoundTripCanonical ==
  /\ (/\ textOp.op = "new" /\ textOp.obj = "U"
      /\ texts["T"].from.kind = "string"
      /\ KeptString(texts["T"].from.str)) =>
       /\ textOp.ok
       /\ Text_eq(texts["U"], texts["T"].from)
       /\ texts["U"].initialU8aLength = BLen(textOp.arg.bytes)
  /\ (/\ textOp.op = "new" /\ textOp.obj = "T"
      /\ textOp.arg.kind = "u8a"
      /\ CanonicalInput(textOp.arg.bytes)) => textOp.ok
  /\ (/\ textOp.op = "toU8a" /\ textOp.obj = "T"
      /\ texts["T"].from.kind = "u8a"
      /\ CanonicalInput(texts["T"].from.bytes)) =>
       (textOp.arg = FALSE => textOp.ret = texts["T"].from.bytes)

\* a string with a two-byte character whose encoding is exactly MAX_LENGTH
\* bytes, decoded back from its encoding
C12_Witness ==
  /\ textOp.op = "new" /\ textOp.obj = "U" /\ textOp.ok
  /\ texts["T"].from.kind = "string"
  /\ BAt(texts["T"].from.str, 0) = 233
  /\ BLen(stringToU8a(texts["T"].from.str)) = 131072
  /\ texts["U"].str = texts["T"].from.str
  /\ texts["U"].initialU8aLength = 131072 + 4

(***************************************************************************)
(* DeriveSpec: one getAvailableDerives call on an api and custom derives   *)
(***************************************************************************)
\* the module names the gate may ask the registry about
ModuleNames == UNION {{checks[s].instances[i] : i \in DOMAIN checks[s].instances} : s \in DOMAIN checks}

\* keys of api.query: pallets under their own name and under instance names
QueryNames == {"council", "generalCouncil", "democracy", "democracy2", "registrar"}

\* what the registry knows of a module: nothing, or a list of instances
InstanceLists ==
  {[present |-> FALSE, list |-> <<>>]}
  \cup {[present |-> TRUE, list |-> l] :
          l \in {<<>>, <<"generalCouncil">>, <<"democracy2">>, <<"councilB", "generalCouncil">>}}

\* the modules the registry may hold instances of
DetectedModules == {"council", "democracy"}

\* custom derive sections: a new name, a built-in name, a gated name that is
\* not built in, and a name every object inherits
CustomNames == {"myDerive", "council", "toString"}

DeriveInputs ==
  {[done |-> TRUE,
    api |-> [query |-> q,
             moduleInstances |-> [n \in ModuleNames |->
                                    IF n \in DetectedModules THEN mi[n]
                                    ELSE [present |-> FALSE, list |-> <<>>]]],
    custom |-> c] :
     q \in SUBSET QueryNames, mi \in [DetectedModules -> InstanceLists], c \in SUBSET CustomNames}

DeriveInit ==
  /\ deriveIn \in DeriveInputs
  /\ deriveOut = [done |-> FALSE]
  /\ IdleText /\ IdleDecode /\ IdleMeta /\ IdleExt
  /\ IdleObj /\ IdleDecorate /\ IdleCompare

GetAvailableDerives ==
  /\ ~deriveOut.done
  /\ LET r == getAvailableDerives(deriveIn.api, deriveIn.custom)
     IN  deriveOut' = [done |-> TRUE, ok |-> r.ok, sections |-> r.sections]
  /\ UNCHANGED <<deriveIn, textVars, decVars, metaVars, extVars, objVars, decorateVars, cmpVars>>

DeriveNext == GetAvailableDerives

DeriveSpec == DeriveInit /\ [][DeriveNext]_vars

\* the instance names checks lists for section s
ListedInstances(s) == {checks[s].instances[i] : i \in DOMAIN checks[s].instances}

\* the registry's instances of module n (none when the list is missing)
KnownInstances(api, n) ==
  IF api.moduleInstances[n].present
  THEN {api.moduleInstances[n].list[k] : k \in DOMAIN api.moduleInstances[n].list}
  ELSE {}

\* the gate as the claim words it
Gate(api, s) ==
  \/ s \notin DOMAIN checks
  \/ ListedInstances(s) \cap api.query # {}
  \/ /\ checks[s].withDetect
     /\ \E n \in ListedInstances(s) : KnownInstances(api, n) \cap api.query # {}

\* C13: a derive section is included in the available-derives map exactly as
\* the gate says: a section not listed in checks is always included; a listed
\* section is included if and only if one of its listed instance names is a
\* key of api.query, or it has withDetect and the registry's module instances
\* of one of its listed names contain a key of api.query; otherwise it is
\* omitted, without error.
C13_DeriveGate ==
  deriveOut.done =>
    /\ deriveOut.ok
    /\ \A s \in derive \cup deriveIn.custom :
         s \in deriveOut.sections <=> Gate(deriveIn.api, s)

(***************************************************************************)
(* DecorateSpec: one fromMetadata call on the modules of a metadata        *)
(***************************************************************************)
\* "Ab" and "ab" (one section name, "ab") and "B_a" (section "bA")
ModuleNameInputs == {<<"A", "b">>, <<"a", "b">>, <<"B", "_", "a">>}

\* the calls of a module: absent, present and empty, one call "s", two calls
\* "s" and "Sb"
CallsInputs ==
  {[isSome |-> FALSE, list |-> <<>>],
   [isSome |-> TRUE, list |-> <<>>],
   [isSome |-> TRUE, list |-> <<[name |-> <<"s">>]>>],
   [isSome |-> TRUE, list |-> <<[name |-> <<"s">>], [name |-> <<"S", "b">>]>>]}

ModuleInputs == {[name |-> n, calls |-> c] : n \in ModuleNameInputs, c \in CallsInputs}

DecorateInit ==
  /\ metadataIn \in UNION {[1 .. n -> ModuleInputs] : n \in 0 .. MaxModules}
  /\ extrinsicsOut = [done |-> FALSE]
  /\ IdleText /\ IdleDecode /\ IdleMeta /\ IdleExt
  /\ IdleObj /\ IdleDerive /\ IdleCompare

FromMetadata ==
  /\ ~extrinsicsOut.done
  /\ extrinsicsOut' = [done |-> TRUE, result |-> fromMetadata(metadataIn)]
  /\ UNCHANGED <<metadataIn, textVars, decVars, metaVars, extVars, objVars, deriveVars, cmpVars>>

DecorateNext == FromMetadata

DecorateSpec == DecorateInit /\ [][DecorateNext]_vars

\* the result holds exactly the sections of the modules at positions idxs,
\* each section that of the last such module of its name, each call bound to
\* its module's rank among idxs and to its own position in the call list
DecoratedFrom(idxs) ==
  LET r             == extrinsicsOut.result
      sectionOf(i)  == stringCamelCase(metadataIn[i].name)
      moduleIndex(i) == Cardinality({k \in idxs : k < i})
      lastOf(s)     == CHOOSE i \in idxs :
                         sectionOf(i) = s /\ \A k \in idxs : sectionOf(k) = s => k <= i
  IN  /\ DOMAIN r = {sectionOf(i) : i \in idxs}
      /\ \A s \in DOMAIN r :
           LET i     == lastOf(s)
               calls == metadataIn[i].calls.list
           IN  /\ DOMAIN r[s] = {stringCamelCase(calls[j].name) : j \in DOMAIN calls}
               /\ \A j \in DOMAIN calls :
                    r[s][stringCamelCase(calls[j].name)].callIndex = <<moduleIndex(i), j - 1>>

\* C14 as stated: decorating extrinsics from metadata yields a section, under
\* the lower-camel-cased module name, only for modules with at least one
\* call; each call constructor is bound to (moduleIndex, methodIndex), the
\* call's position in its module's call list and the module's position
\* counted among the modules that have calls; of two modules with the same
\* section name the later replaces the earlier.
C14_SectionsOfModulesWithACall ==
  extrinsicsOut.done =>
    DecoratedFrom({i \in DOMAIN metadataIn :
                     metadataIn[i].calls.isSome /\ Len(metadataIn[i].calls.list) >= 1})

\* C14, amended: decorating extrinsics from metadata yields a section, under
\* the lower-camel-cased module name, exactly for the modules whose calls are
\* present (calls.isSome), an empty call list included (it yields an empty
\* section); each call constructor is bound to (moduleIndex, methodIndex),
\* the call's position in its module's call list and the module's position
\* counted among the modules whose calls are present (only modules whose
\* calls are absent consume no index); of two modules with the same section
\* name the later replaces the earlier.
C14_SectionsOfModulesWithCallsPresent ==
  extrinsicsOut.done =>
    DecoratedFrom({i \in DOMAIN metadataIn : metadataIn[i].calls.isSome})

\* a module without calls, then two modules of one section name: the section
\* is the later one's, numbered 1
C14_Witness ==
  /\ extrinsicsOut.done
  /\ Len(metadataIn) = 3
  /\ ~metadataIn[1].calls.isSome
  /\ metadataIn[2].calls.isSome /\ Len(metadataIn[2].calls.list) = 1
  /\ metadataIn[2].name # metadataIn[3].name
  /\ stringCamelCase(metadataIn[2].name) = stringCamelCase(metadataIn[3].name)
  /\ Len(metadataIn[3].calls.list) = 2
  /\ extrinsicsOut.result[stringCamelCase(metadataIn[3].name)][<<"s", "b">>].callIndex = <<1, 1>>

(***************************************************************************)
(* DecodeSpec: one GenericExtrinsic._decodeExtrinsic call on bytes         *)
(***************************************************************************)
\* what follows the version byte in the payload: nothing, a call, or a
\* signature block and a call
Rests == {<<>>, <<3, 0, 116>>, <<1, 9, 0, 4, 0, 3, 0, 116>>}

\* a payload behind its length prefix: exact, followed by a stray byte, or
\* declared one byte longer than what is there
Framings(payload) ==
  {compactAddLength(payload),
   BCat(compactAddLength(payload), FromSeq(<<255>>)),
   BCat(compactToU8a(BLen(payload) + 1), payload)}

DecodeInputs ==
  {[value |-> [kind |-> "u8a", bytes |-> b], version |-> v] :
     b \in UNION {Framings(FromSeq(<<fb>> \o rest)) : fb \in 0 .. 255, rest \in Rests}
            \cup {<<>>, FromSeq(<<0>>), FromSeq(<<0, 4>>)},
     v \in {Undefined, 4, 132, 5}}

DecodeInit ==
  /\ decIn \in DecodeInputs
  /\ decOut = [done |-> FALSE]
  /\ IdleText /\ IdleMeta /\ IdleExt
  /\ IdleObj /\ IdleDerive /\ IdleDecorate /\ IdleCompare

ExtrinsicDecode ==
  /\ ~decOut.done
  /\ decOut' = [done |-> TRUE, res |-> decodeExtrinsic(decIn.value, decIn.version)]
  /\ UNCHANGED <<decIn, textVars, metaVars, extVars, objVars, deriveVars, decorateVars, cmpVars>>

DecodeNext == ExtrinsicDecode

DecodeSpec == DecodeInit /\ [][DecodeNext]_vars

\* the payload a framed input declares, when it fits the buffer
DeclaredPayload(b) ==
  LET c == compactFromU8a(b) IN subarray(b, c[1], c[1] + c[2])

DeclaredFits(b) ==
  LET c == compactFromU8a(b) IN c[1] + c[2] <= BLen(b)

\* C9: decoding an extrinsic from a non-empty byte sequence fails if prefix
\* size + declared length exceeds the buffer length; otherwise the format
\* version and the signed flag of the result come from the first byte of the
\* payload (low 7 bits, top bit), whatever version option the caller passed,
\* and the inner decoder receives the payload without that byte.  (A declared
\* length of 0 leaves no first byte: the version handed on is undefined.)
C9_DecodeUsesVersionByte ==
  (decOut.done /\ BLen(decIn.value.bytes) > 0) =>
    LET b == decIn.value.bytes
        r == decOut.res
    IN  IF ~DeclaredFits(b) THEN ~r.ok
        ELSE LET payload == DeclaredPayload(b)
                 fb      == BAt(payload, 0)
             IN  /\ r.ok /\ ~r.shared
                 /\ r.value = [kind |-> "u8a", bytes |-> BDrop(payload, 1)]
                 /\ IF fb = Undefined
                    THEN r.version = Undefined /\ ~r.isSigned /\ r.type = "ExtrinsicUnknown"
                    ELSE /\ r.version = fb
                         /\ r.isSigned <=> fb >= 128
                         /\ r.type = "ExtrinsicV4" <=> fb % 128 = 4
                         /\ createType(r).ok =>
                              /\ createType(r).raw.version = fb % 128
                              /\ createType(r).raw.isSigned <=> fb >= 128

\* a signed format-4 payload decoded while the caller asked for version 5
C9_Witness ==
  /\ decOut.done /\ decOut.res.ok
  /\ decIn.version = 5
  /\ BAt(DeclaredPayload(decIn.value.bytes), 0) = 132
  /\ decOut.res.isSigned /\ decOut.res.type = "ExtrinsicV4"
  /\ BLen(decOut.res.value.bytes) > 0

\* C10: every version byte whose low 7 bits are not 4 selects ExtrinsicUnknown
\* (the decode does not fail); only low 7 bits equal to 4 select ExtrinsicV4.
C10_UnknownVersions ==
  (/\ decOut.done
   /\ BLen(decIn.value.bytes) > 0
   /\ DeclaredFits(decIn.value.bytes)
   /\ BLen(DeclaredPayload(decIn.value.bytes)) > 0) =>
    LET fb == BAt(DeclaredPayload(decIn.value.bytes), 0)
        r  == decOut.res
    IN  /\ r.ok
        /\ fb % 128 # 4 => r.type = "ExtrinsicUnknown"
        /\ fb % 128 = 4 => r.type = "ExtrinsicV4"

\* a signed version byte above the table (0x85) decoded as ExtrinsicUnknown
C10_Witness ==
  /\ decOut.done /\ decOut.res.ok
  /\ BLen(decIn.value.bytes) > 0
  /\ BAt(DeclaredPayload(decIn.value.bytes), 0) = 133
  /\ decOut.res.type = "ExtrinsicUnknown"

(***************************************************************************)
(* MetaSpec: Metadata constructions, one after another, in one process     *)
(***************************************************************************)
MetaVersions == {9, 10, 11}
MetaPayloads == {<<>>, <<4>>}

\* the digits of u8aToHex(bytes) after "0x"
RECURSIVE HexDigits(_)
HexDigits(bytes) ==
  IF bytes = <<>> THEN <<>>
  ELSE <<Head(bytes) \div 16, Head(bytes) % 16>> \o HexDigits(Tail(bytes))

MetaBlobs == {MAGIC \o <<v>> \o p : v \in MetaVersions, p \in MetaPayloads} \cup {<<>>, <<109, 101>>}

MetaInputs ==
  {[kind |-> "undefined"], [kind |-> "null"]}
  \cup {[kind |-> "u8a", ref |-> "arg", bytes |-> b] : b \in MetaBlobs}
  \cup {[kind |-> "hex", digits |-> HexDigits(b)] : b \in MetaBlobs}
  \cup {[kind |-> "object", valid |-> ok, version |-> 11] : ok \in BOOLEAN}

\* the bytes a byte or hex input holds
InputBytes(in) ==
  IF in.kind = "u8a" THEN in.bytes
  ELSE IF in.kind = "hex" THEN hexToU8a(in.digits)
  ELSE <<>>

\* The versioned decoders are not part of this tree: any set of accepted
\* <<version, payload>> pairs is allowed, as long as the empty module list
\* decodes as version 9 (spec 6: the sentinel is magic + version 9 + empty
\* module list).
MetaInit ==
  /\ EMPTY_METADATA = SENTINEL
  /\ decoder \in {d \in SUBSET (MetaVersions \X MetaPayloads) : <<9, <<>>>> \in d}
  /\ metaCall = [done |-> FALSE]
  /\ IdleText /\ IdleDecode /\ IdleExt
  /\ IdleObj /\ IdleDerive /\ IdleDecorate /\ IdleCompare

\* new Metadata(registry, value)
MetadataNew ==
  \E in \in MetaInputs :
    LET heap0 == [EMPTY_METADATA |-> EMPTY_METADATA, arg |-> InputBytes(in), tmp |-> <<>>]
        r     == decodeMetadata(IF in.kind = "u8a" THEN [kind |-> "u8a", ref |-> "arg"] ELSE in,
                                heap0, decoder, <<>>)
    IN  /\ EMPTY_METADATA' = r.heap.EMPTY_METADATA
        /\ metaCall' = [done |-> TRUE, input |-> in, ok |-> r.ok,
                        version |-> IF r.ok THEN r.version ELSE Undefined,
                        bytes |-> IF r.ok THEN r.bytes ELSE <<>>,
                        error |-> IF r.ok THEN Undefined ELSE r.error,
                        log |-> r.log,
                        argAfter |-> r.heap.arg,
                        afterFallback |-> metaCall.done /\ (Len(metaCall.log) > 1 \/ metaCall.afterFallback)]
        /\ UNCHANGED <<decoder, textVars, decVars, extVars, objVars, deriveVars, decorateVars, cmpVars>>

MetaNext == MetadataNew

MetaSpec == MetaInit /\ [][MetaNext]_vars

IsByteInput(in) == in.kind \in {"u8a", "hex"}

\* C2: a byte or hex input with version byte 9 whose payload fails to decode
\* as version 9 but decodes as version 10 constructs: the version byte is
\* rewritten to 10, the decode retried, and the result is the version-10
\* decode.
C2_FallbackSucceeds ==
  (/\ metaCall.done /\ IsByteInput(metaCall.input)
   /\ Len(InputBytes(metaCall.input)) > VERSION_IDX
   /\ SubSeq(InputBytes(metaCall.input), 1, 5) = MAGIC \o <<9>>
   /\ <<9, SubSeq(InputBytes(metaCall.input), 6, Len(InputBytes(metaCall.input)))>> \notin decoder
   /\ <<10, SubSeq(InputBytes(metaCall.input), 6, Len(InputBytes(metaCall.input)))>> \in decoder) =>
    LET b == InputBytes(metaCall.input)
    IN  /\ metaCall.ok
        /\ metaCall.version = 10
        /\ metaCall.bytes = [b EXCEPT ![5] = 10]
        /\ Len(metaCall.log) = 2
        /\ metaCall.log[1] = [bytes |-> b, ok |-> FALSE]
        /\ metaCall.log[2] = [bytes |-> [b EXCEPT ![5] = 10], ok |-> TRUE]

\* a hex input labelled 9 that constructed as version 10
C2_Witness ==
  /\ metaCall.done /\ metaCall.input.kind = "hex"
  /\ VersionByte(InputBytes(metaCall.input)) = 9
  /\ metaCall.ok /\ metaCall.version = 10 /\ Len(metaCall.log) = 2

\* C3: for any byte or hex input the versioned decoder is attempted at most
\* twice; a second attempt happens only when the first was on version byte 9
\* and failed, it is made with version byte 10, and if it fails too the
\* construction fails.
C3_AtMostOneRetry ==
  (metaCall.done /\ (IsByteInput(metaCall.input) \/ metaCall.input.kind = "undefined")) =>
    /\ Len(metaCall.log) <= 2
    /\ Len(metaCall.log) = 2 =>
         /\ ~metaCall.log[1].ok
         /\ VersionByte(metaCall.log[1].bytes) = 9
         /\ metaCall.log[2].bytes = [metaCall.log[1].bytes EXCEPT ![5] = 10]
         /\ metaCall.ok <=> metaCall.log[2].ok
         /\ ~metaCall.ok => metaCall.error = 2

\* a blob labelled 9 that fails under both decoders: two attempts, then the throw
C3_Witness ==
  /\ metaCall.done /\ metaCall.input.kind = "u8a"
  /\ Len(metaCall.log) = 2 /\ ~metaCall.log[2].ok /\ ~metaCall.ok

\* C6: when the first decode attempt of a byte or hex input fails and the
\* version byte is not 9, the constructor throws that same error, without a
\* retry and without changing the input bytes.
C6_OtherFailuresPropagate ==
  (/\ metaCall.done /\ IsByteInput(metaCall.input)
   /\ Len(metaCall.log) >= 1 /\ ~metaCall.log[1].ok
   /\ VersionByte(metaCall.log[1].bytes) # 9) =>
    /\ ~metaCall.ok
    /\ metaCall.error = 1
    /\ Len(metaCall.log) = 1
    /\ metaCall.argAfter = InputBytes(metaCall.input)
    /\ metaCall.log[1].bytes = InputBytes(metaCall.input)

\* a version-10 blob that does not decode: thrown at once, bytes untouched
C6_Witness ==
  /\ metaCall.done /\ metaCall.input.kind = "u8a"
  /\ VersionByte(metaCall.input.bytes) = 10
  /\ ~metaCall.ok /\ metaCall.error = 1
  /\ metaCall.argAfter = metaCall.input.bytes

IsEmptyInput(in) ==
  in.kind = "undefined" \/ (IsByteInput(in) /\ InputBytes(in) = <<>>)

\* C7: every construction from empty input (no value, or a zero-length byte
\* sequence) starts its decode on exactly the bytes 6d 65 74 61 09, whatever
\* constructions preceded it: the sentinel is never altered.
C7_SentinelFixed ==
  /\ EMPTY_METADATA = <<109, 101, 116, 97, 9>>
  /\ (metaCall.done /\ IsEmptyInput(metaCall.input)) =>
       /\ Len(metaCall.log) >= 1
       /\ metaCall.log[1].bytes = <<109, 101, 116, 97, 9>>

\* an empty construction made after an earlier one went through the fallback
C7_Witness ==
  /\ metaCall.done /\ IsEmptyInput(metaCall.input)
  /\ metaCall.afterFallback
  /\ metaCall.ok /\ metaCall.version = 9

(***************************************************************************)
(* Spec: one GenericExtrinsic object, A, constructed from a call or from   *)
(* bytes, then read and signed in any order.  (ExtNew constructs a second  *)
(* object, B; it is part of ShareSpec.)                                    *)
(***************************************************************************)
Methods == {FromSeq(<<3, 0, 116>>), FromSeq(<<3, 1>>)}
Accounts == 1 .. NumAccounts
Payloads == {[era |-> 0, nonce |-> n, tip |-> 0] : n \in 0 .. MaxNonce}
GivenSignatures == {9}
Mutators == {"addSignature", "sign", "signFake"}

State == [raws |-> raws, objs |-> objs]

Live(o) == objs[o].live

\* the values A is constructed from: a call, or the encoding of a signed
\* extrinsic
InitialValues ==
  {[kind |-> "call", method |-> m] : m \in Methods}
  \cup {[kind |-> "u8a", bytes |-> compactAddLength(FromSeq(<<132, 1, 9, 0, 4, 0, 3, 0, 116>>))]}

Init ==
  /\ \E v \in InitialValues :
       LET n == newExtrinsic([raws |-> [i \in RawIds |-> NoRaw],
                              objs |-> [o \in Objects |-> NoObject]],
                             "A", v, Undefined)
       IN  raws = n.st.raws /\ objs = n.st.objs
  /\ extOp = [op |-> "new", obj |-> "A", ok |-> TRUE, ret |-> Undefined, wasSigned |-> FALSE]
  /\ IdleText /\ IdleDecode /\ IdleMeta
  /\ IdleObj /\ IdleDerive /\ IdleDecorate /\ IdleCompare

\* new GenericExtrinsic(registry, value) as B
ExtNew ==
  /\ ~Live("B")
  /\ \E v \in {[kind |-> "extrinsic", raw |-> objs["A"].raw],
                [kind |-> "u8a", bytes |-> Extrinsic_toU8a(State, "A", FALSE)]}
               \cup {[kind |-> "call", method |-> m] : m \in Methods} :
       LET n == newExtrinsic(State, "B", v, Undefined)
       IN  /\ n.ok
           /\ raws' = n.st.raws
           /\ objs' = n.st.objs
           /\ extOp' = [op |-> "new", obj |-> "B", ok |-> TRUE, ret |-> Undefined,
                        wasSigned |-> FALSE]
  /\ UNCHANGED <<textVars, decVars, metaVars, objVars, deriveVars, decorateVars, cmpVars>>

\* o.hash
ExtHash(o) ==
  /\ Live(o)
  /\ LET h == hash(State, o)
     IN  /\ raws' = h.st.raws
         /\ objs' = h.st.objs
         /\ extOp' = [op |-> "hash", obj |-> o, ok |-> TRUE, ret |-> h.ret,
                      wasSigned |-> isSigned(State, o)]
  /\ UNCHANGED <<textVars, decVars, metaVars, objVars, deriveVars, decorateVars, cmpVars>>

\* o.addSignature(signer, signature, payload), the signer among signers and
\* the payload among payloads
ExtAddSignatureWith(o, signers, payloads) ==
  /\ Live(o)
  /\ \E signer \in signers, signature \in GivenSignatures, payload \in payloads, throws \in BOOLEAN :
       LET st == addSignature(State, o, signer, signature, payload, throws)
       IN  /\ raws' = st.raws
           /\ objs' = st.objs
           /\ extOp' = [op |-> "addSignature", obj |-> o, ok |-> ~throws, ret |-> Undefined,
                        wasSigned |-> isSigned(State, o)]
  /\ UNCHANGED <<textVars, decVars, metaVars, objVars, deriveVars, decorateVars, cmpVars>>

ExtAddSignature(o) == ExtAddSignatureWith(o, Accounts, Payloads)

\* o.sign(account, options)
ExtSignWith(o, signers, payloads) ==
  /\ Live(o)
  /\ \E account \in signers, options \in payloads, throws \in BOOLEAN :
       LET st == sign(State, o, account, options, throws)
       IN  /\ raws' = st.raws
           /\ objs' = st.objs
           /\ extOp' = [op |-> "sign", obj |-> o, ok |-> ~throws, ret |-> Undefined,
                        wasSigned |-> isSigned(State, o)]
  /\ UNCHANGED <<textVars, decVars, metaVars, objVars, deriveVars, decorateVars, cmpVars>>

ExtSign(o) == ExtSignWith(o, Accounts, Payloads)

\* o.signFake(signer, options)
ExtSignFakeWith(o, signers, payloads) ==
  /\ Live(o)
  /\ \E signer \in signers, options \in payloads, throws \in BOOLEAN :
       LET st == signFake(State, o, signer, options, throws)
       IN  /\ raws' = st.raws
           /\ objs' = st.objs
           /\ extOp' = [op |-> "signFake", obj |-> o, ok |-> ~throws, ret |-> Undefined,
                        wasSigned |-> isSigned(State, o)]
  /\ UNCHANGED <<textVars, decVars, metaVars, objVars, deriveVars, decorateVars, cmpVars>>

ExtSignFake(o) == ExtSignFakeWith(o, Accounts, Payloads)

Next ==
  \/ \E o \in Objects : ExtHash(o)
  \/ \E o \in Objects : ExtAddSignature(o)
  \/ \E o \in Objects : ExtSign(o)
  \/ \E o \in Objects : ExtSignFake(o)

Spec == Init /\ [][Next]_vars

\* no other live object holds o's inner value
Sole(o) == \A p \in Objects \ {o} : ~(Live(p) /\ objs[p].raw = objs[o].raw)

\* C1: for an extrinsic that shares its inner value with no other object,
\* after any sequence of hash reads and addSignature/sign/signFake calls,
\* hash returns the registry hash of the current toU8a(); every successful
\* addSignature, sign or signFake clears the memoized hash, and between two
\* such mutations the hash is computed at most once.
C1_HashFollowsEncoding ==
  \A o \in Objects :
    (Live(o) /\ Sole(o)) =>
      /\ objs[o].hashCache # Undefined =>
           /\ objs[o].hashOf = Extrinsic_toU8a(State, o, FALSE)
           /\ objs[o].hashCache = registryHash(Extrinsic_toU8a(State, o, FALSE))
      /\ objs[o].computes <= 1
      /\ (extOp.obj = o /\ extOp.op = "hash") =>
           extOp.ret = registryHash(Extrinsic_toU8a(State, o, FALSE))
      /\ (extOp.obj = o /\ extOp.op \in Mutators /\ extOp.ok) =>
           objs[o].hashCache = Undefined /\ objs[o].computes = 0

\* the hash read again after a signature was attached to a hashed extrinsic
C1_Witness ==
  /\ Live("A") /\ Sole("A")
  /\ extOp.op = "hash" /\ extOp.obj = "A" /\ extOp.wasSigned
  /\ objs["A"].computes = 1
  /\ objs["A"].hashOf = Extrinsic_toU8a(State, "A", FALSE)
  /\ objs["A"].hashOf # compactAddLength(BCat(FromSeq(<<4>>), RawOf(State, "A").method))

\* C4: in every reachable state, version is type | 0x80 when isSigned and
\* type when not, type being the 7-bit format version; it is the first byte
\* of toU8a(true): 0x04 for an unsigned format-4 extrinsic, 0x84 for a signed
\* one.
C4_VersionByte ==
  \A o \in Objects :
    Live(o) =>
      LET t == type(State, o)
          v == version(State, o)
      IN  /\ t \in 0 .. 127
          /\ v = IF isSigned(State, o) THEN t + 128 ELSE t
          /\ BAt(Extrinsic_toU8a(State, o, TRUE), 0) = v
          /\ t = 4 => v = IF isSigned(State, o) THEN 132 ELSE 4

\* an extrinsic constructed from a call and signed since: version byte 0x84
C4_Witness ==
  /\ Live("A")
  /\ extOp.op = "sign" /\ extOp.ok /\ ~extOp.wasSigned
  /\ BAt(Extrinsic_toU8a(State, "A", TRUE), 0) = 132

\* C5: each successful addSignature, sign and signFake leaves the extrinsic
\* Signed, whether it was Unsigned or Signed before, and no operation moves a
\* Signed extrinsic back to Unsigned.
C5_SignedStaysSigned ==
  /\ (extOp.op \in Mutators /\ extOp.ok) => isSigned(State, extOp.obj)
  /\ (extOp.op # "none" /\ extOp.wasSigned) => isSigned(State, extOp.obj)

\* a signed extrinsic signed again: the signature block is the new one
C5_Witness ==
  /\ extOp.op = "signFake" /\ extOp.ok /\ extOp.wasSigned
  /\ isSigned(State, "A")
  /\ RawOf(State, "A").sig.signature = FAKE_SIGNATURE

(***************************************************************************)
(* CompareSpec: one compareArray call                                      *)
(***************************************************************************)
Elements ==
  {UndefinedElement} \cup {[kind |-> k, v |-> n] : k \in {"num", "codec"}, n \in 1 .. 2}

Arrays == UNION {[1 .. n -> Elements] : n \in 0 .. MaxArray}

CompareInputs ==
  {[done |-> TRUE, a |-> a, b |-> b] :
     a \in Arrays,
     b \in {[isArray |-> FALSE, elems |-> <<>>]} \cup {[isArray |-> TRUE, elems |-> e] : e \in Arrays}}

CompareInit ==
  /\ cmpIn \in CompareInputs
  /\ cmpOut = [done |-> FALSE]
  /\ IdleText /\ IdleDecode /\ IdleMeta /\ IdleExt
  /\ IdleObj /\ IdleDerive /\ IdleDecorate

CompareArray ==
  /\ ~cmpOut.done
  /\ cmpOut' = [done |-> TRUE, ret |-> compareArray(cmpIn.a, cmpIn.b)]
  /\ UNCHANGED <<cmpIn, textVars, decVars, metaVars, extVars, objVars, deriveVars, decorateVars>>

CompareNext == CompareArray

CompareSpec == CompareInit /\ [][CompareNext]_vars

\* the elements match: x.eq(y) when x has an eq method, x === y otherwise
Matches(x, y) == IF hasEq(x) THEN Codec_eq(x, y) ELSE x = y

\* C16: compareArray(a, b) returns true if and only if b is an array of the
\* same length as a and at every index the elements match (a[i].eq(b[i])
\* when a[i] has an eq method, a[i] === b[i] otherwise), for every a
\* including arrays that contain undefined elements; it returns false
\* whenever b is not an array.
C16_CompareArrayExact ==
  cmpOut.done =>
    (cmpOut.ret <=>
       /\ cmpIn.b.isArray
       /\ Len(cmpIn.a) = Len(cmpIn.b.elems)
       /\ \A i \in DOMAIN cmpIn.a : Matches(cmpIn.a[i], cmpIn.b.elems[i]))

(***************************************************************************)
(* ShareSpec: A, then B constructed from A or like A, both read and signed *)
(* in any order, by one signer with one payload                            *)
(***************************************************************************)
TheSigner == {1}
ThePayload == {[era |-> 0, nonce |-> 0, tip |-> 0]}

ShareNext ==
  \/ ExtNew
  \/ \E o \in Objects : ExtHash(o)
  \/ \E o \in Objects : ExtAddSignatureWith(o, TheSigner, ThePayload)
  \/ \E o \in Objects : ExtSignWith(o, TheSigner, ThePayload)
  \/ \E o \in Objects : ExtSignFakeWith(o, TheSigner, ThePayload)

ShareSpec == Init /\ [][ShareNext]_vars

\* C15: when a GenericExtrinsic B is constructed from an existing
\* GenericExtrinsic A, then after any interleaving of hash reads and
\* addSignature/sign/signFake calls on A and on B, each object's hash equals
\* the registry hash of that object's own current toU8a().
C15_EachHashFollowsOwnEncoding ==
  (/\ Live("B") /\ objs["B"].raw = objs["A"].raw
   /\ extOp.op = "hash") =>
    extOp.ret = registryHash(Extrinsic_toU8a(State, extOp.obj, FALSE))

====
